---- MODULE Spec2Model ----
(***************************************************************************)
(* State-machine model of js/enhanced-interactions.js: the product        *)
(* comparison tray (ProductComparison), the product filter                *)
(* (ProductFilter, debounce), the notifications (NotificationSystem) and  *)
(* the review system (ReviewSystem, StarRating).                          *)
(* Every event handler of the page runs to completion, so each handler is *)
(* one action; deferred callbacks (setTimeout) are actions of their own.  *)
(***************************************************************************)
EXTENDS Integers, Sequences, FiniteSets, TLC

(* ---------------- bounds of the model ---------------- *)
\* number of .product-card elements on the page
NumProducts == 4
\* most reviews held in the collection
MaxReviews == 2
\* most helpful clicks counted in the collection
MaxHelpful == 2

(* ---------------- program constants ---------------- *)
\* this.maxCompare = 3
maxCompare == 3
\* StarRating options.maxStars
maxStars == 5

\* the product cards of the page, named by data-product-id
Products == 1..NumProducts

\* most deferred callbacks (setTimeout) outstanding at once
MaxPending == 2 * NumProducts
\* most notifications shown in one visit
MaxNotes == 2
\* most callbacks outstanding when a notification's close button is clicked
MaxNoteTimers == 2 * MaxNotes

VARIABLES
    compareList,      \* ProductComparison.compareList
    compareCount,     \* textContent of #compare-count
    btnCompareOff,    \* #btn-compare.disabled
    compareBarActive, \* .compare-bar has class active
    addBtnActive,     \* per card: its .add-to-compare button has class active
    filters,          \* ProductFilter.filters
    searchTerm,       \* ProductFilter.searchTerm: <<>> while undefined, else <<string>>
    priceDisplay,     \* the slider value shown in #price-display
    cardDisplay,      \* per card: style.display ("" while no inline value)
    cardOpacity,      \* per card: style.opacity ("" while no inline value)
    resultsCount,     \* the number written to #results-count
    timers,           \* pending setTimeout callbacks: one batch per handler run, oldest first
    reviews,          \* ReviewSystem.reviews
    stored,           \* localStorage item 'bespoke-reviews': <<>> while absent, else <<text>>
    now,              \* the clock read by Date.now()
    modalOpen,        \* a .review-modal is in the document
    formRating,       \* #review-form dataset.rating: <<>> while unset, else <<rating>>
    ratingInput,      \* the StarRating of the form: currentRating, and whether
                      \* the star elements now in the document carry listeners
    items,            \* the .review-item elements of #reviews-list
    summary,          \* the texts of .review-summary
    reviewsSection,   \* #reviews-section is in the document
    activeFilter,     \* data-filter of the .filter-btn of .review-filters with class active
    notes,            \* the .notification elements created so far, oldest first
    lastEvent         \* the handler that ran last, the way it ended (op) and
                      \* the type of notification it passed to showNotification (note)

compareVars == <<compareList, compareCount, btnCompareOff, compareBarActive, addBtnActive>>
filterVars == <<filters, searchTerm, priceDisplay, cardDisplay, cardOpacity, resultsCount, timers>>
reviewVars == <<reviews, stored, now, modalOpen, formRating, ratingInput, items, summary,
                reviewsSection, activeFilter>>
noteVars == <<notes>>
vars == <<compareVars, filterVars, reviewVars, noteVars, lastEvent>>

(* ---------------- ProductComparison ---------------- *)

\* Array.prototype.includes
Includes(list, x) == \E i \in 1..Len(list) : list[i] = x

\* a plausible slip: Array.prototype.pop instead of the filter
removeFromCompareList_pop(list, productId) ==
    SubSeq(list, 1, Len(list) - 1)

\* removeFromCompare: compareList.filter(id => id !== productId)
removeFromCompareList(list, productId) ==
    SelectSeq(list, LAMBDA id : id # productId)

\* a plausible slip: <= instead of <
canAdd_le(list) == Len(list) <= maxCompare

\* the branch test of addToCompare that admits a new id
canAdd(list) == Len(list) < maxCompare

\* the compare list that addToCompare leaves behind
listAfterAdd(list, productId) ==
    IF Includes(list, productId) THEN removeFromCompareList(list, productId)
    ELSE IF canAdd(list) THEN Append(list, productId)
    ELSE list

\* updateCompareBar: the count, the compare button and the bar follow the list
updateCompareBar(list) ==
    /\ compareCount' = Len(list)
    /\ btnCompareOff' = (Len(list) < 2)
    /\ compareBarActive' = (Len(list) > 0)

\* click on the .add-to-compare button of card productId
addToCompare(productId) ==
    /\ compareList' = listAfterAdd(compareList, productId)
    /\ IF Includes(compareList, productId)
       THEN /\ updateCompareBar(compareList')
            /\ addBtnActive' = [addBtnActive EXCEPT ![productId] = FALSE]
            /\ lastEvent' = [op |-> "compareRemove", arg |-> productId, note |-> "none"]
       ELSE IF canAdd(compareList)
       THEN /\ addBtnActive' = [addBtnActive EXCEPT ![productId] = TRUE]
            /\ updateCompareBar(compareList')
            /\ lastEvent' = [op |-> "compareAdd", arg |-> productId, note |-> "none"]
       ELSE \* this.showNotification is not a method of ProductComparison:
            \* the call throws a TypeError and the handler ends there
            /\ UNCHANGED <<compareCount, btnCompareOff, compareBarActive, addBtnActive>>
            /\ lastEvent' = [op |-> "compareFullThrew", arg |-> productId, note |-> "none"]
    /\ UNCHANGED <<filterVars, reviewVars, noteVars>>

\* click on #btn-clear-compare
clearCompare ==
    /\ compareList' = <<>>
    /\ addBtnActive' = [p \in Products |-> FALSE]
    /\ updateCompareBar(compareList')
    /\ lastEvent' = [op |-> "compareClear", arg |-> 0, note |-> "none"]
    /\ UNCHANGED <<filterVars, reviewVars, noteVars>>

InitCompare ==
    /\ compareList = <<>>
    /\ compareCount = 0
    /\ btnCompareOff = TRUE
    /\ compareBarActive = FALSE
    /\ addBtnActive = [p \in Products |-> FALSE]

NextCompare ==
    \/ \E productId \in Products : addToCompare(productId)
    \/ clearCompare

(* ---------------- page data read by ProductFilter ---------------- *)

\* strings are sequences of characters; numbers in attributes and input
\* values are strings of decimal digits
DigitValue(ch) ==
    CASE ch = "0" -> 0 [] ch = "1" -> 1 [] ch = "2" -> 2 [] ch = "3" -> 3
      [] ch = "4" -> 4 [] ch = "5" -> 5 [] ch = "6" -> 6 [] ch = "7" -> 7
      [] ch = "8" -> 8 [] ch = "9" -> 9

DigitOf(n) ==
    CASE n = 0 -> "0" [] n = 1 -> "1" [] n = 2 -> "2" [] n = 3 -> "3"
      [] n = 4 -> "4" [] n = 5 -> "5" [] n = 6 -> "6" [] n = 7 -> "7"
      [] n = 8 -> "8" [] n = 9 -> "9"

\* card.dataset.category, .material, .price and the two text nodes of a card
cardCategory(c) == IF c % 2 = 1 THEN "tote" ELSE "backpack"
cardMaterial(c) == IF c % 3 = 0 THEN "canvas" ELSE "leather"
cardPrice(c) == <<DigitOf(c % 10), "0">>
cardTitle(c) == IF c % 2 = 1 THEN <<"A", "b">> ELSE <<"B", "a", "g">>
cardDescription(c) == IF c % 3 = 0 THEN <<"b", "B">> ELSE <<"g", "a">>

\* data-value of the .filter-btn buttons, per data-filter
FilterValues(filterType) ==
    IF filterType = "category" THEN {"all", "tote", "backpack"}
    ELSE {"all", "canvas"}

\* values the #price-range slider can deliver
SliderValues == {<<"0">>, <<"2", "0">>}

\* texts typed into #product-search
SearchInputs == {<<>>, <<"A", "B">>, <<"g">>}

(* ---------------- ProductFilter ---------------- *)

\* parseInt on a string of decimal digits
RECURSIVE parseInt(_)
parseInt(str) ==
    IF Len(str) = 0 THEN 0
    ELSE 10 * parseInt(SubSeq(str, 1, Len(str) - 1)) + DigitValue(str[Len(str)])

\* String.prototype.toLowerCase
toLowerCase(str) ==
    [i \in 1..Len(str) |->
        CASE str[i] = "A" -> "a" [] str[i] = "B" -> "b" [] str[i] = "G" -> "g"
          [] OTHER -> str[i]]

\* String.prototype.includes
strIncludes(str, part) ==
    \E i \in 0..(Len(str) - Len(part)) : SubSeq(str, i + 1, i + Len(part)) = part

\* the value of `show` that applyFilters computes for card c; a filter is
\* skipped while its setting is falsy (undefined, empty string, 0)
show(c, f, term) ==
    /\ (f.category # "all" => cardCategory(c) = f.category)
    /\ (f.material # "all" => cardMaterial(c) = f.material)
    /\ ((term # <<>> /\ term[1] # <<>>) =>
            \/ strIncludes(toLowerCase(cardTitle(c)), term[1])
            \/ strIncludes(toLowerCase(cardDescription(c)), term[1]))
    /\ ((f.maxPrice # <<>> /\ f.maxPrice[1] # 0) =>
            ~(parseInt(cardPrice(c)) > f.maxPrice[1]))

\* delay in ms passed to setTimeout for each kind of callback
Delay(kind) ==
    CASE kind = "fadeIn" -> 50
      [] kind = "hide" -> 300
      [] kind = "debounce" -> 300
      [] kind = "showClass" -> 100
      [] kind = "autoRemove" -> 5000
      [] kind = "detach" -> 300

\* a callback handed to setTimeout
Timer(kind, card, arg) == [kind |-> kind, card |-> card, arg |-> arg]

\* timers holds one batch per handler run that set timers, oldest first;
\* a batch holds that run's pending callbacks in the order they were set.
\* Callbacks fire in order of due time: callback i of batch b can be due
\* first only if no callback set before it has a delay as short or shorter
\* and none set by the same run has a shorter one.
canFire(b, i) ==
    /\ b \in 1..Len(timers)
    /\ i \in 1..Len(timers[b])
    /\ \A c \in 1..(b - 1) : \A j \in 1..Len(timers[c]) :
          Delay(timers[c][j].kind) > Delay(timers[b][i].kind)
    /\ \A j \in 1..(i - 1) : Delay(timers[b][j].kind) > Delay(timers[b][i].kind)
    /\ \A j \in 1..Len(timers[b]) : Delay(timers[b][j].kind) >= Delay(timers[b][i].kind)

RemoveAt(seq, i) == SubSeq(seq, 1, i - 1) \o SubSeq(seq, i + 1, Len(seq))

\* timers with callback i of batch b taken out
Fired(b, i) ==
    IF Len(timers[b]) = 1 THEN RemoveAt(timers, b)
    ELSE [timers EXCEPT ![b] = RemoveAt(@, i)]

\* a plausible slip: the pending timer left to run
WithoutDebounce_kept(ts) == ts

\* clearTimeout of the debounce timer
WithoutDebounce(ts) == SelectSeq(ts, LAMBDA batch : batch[1].kind # "debounce")

RECURSIVE Pending(_)
\* number of callbacks pending in ts
Pending(ts) == IF ts = <<>> THEN 0 ELSE Len(ts[1]) + Pending(Tail(ts))

\* callbacks pending plus those a pending debounce callback will still set;
\* the handlers below run only while this stays within MaxPending, which
\* keeps the list of pending callbacks finite
Owed(ts) ==
    Pending(ts) + Cardinality({b \in 1..Len(ts) : ts[b][1].kind = "debounce"}) * NumProducts

\* updateResultsCount: the cards whose style attribute contains "block"
visibleProducts(display) == Cardinality({c \in Products : display[c] = "block"})

\* applyFilters with the filters f and the search term, leaving its
\* timers behind those of pending
applyFilters(f, term, pending) ==
    /\ cardDisplay' = [c \in Products |->
                          IF show(c, f, term) THEN "block" ELSE cardDisplay[c]]
    /\ cardOpacity' = [c \in Products |-> "0"]
    /\ timers' = Append(pending,
                 [c \in 1..NumProducts |->
                     Timer(IF show(c, f, term) THEN "fadeIn" ELSE "hide", c, <<>>)])
    /\ resultsCount' = visibleProducts(cardDisplay')

\* click on a .filter-btn button
handleFilterClick(filterType, filterValue) ==
    /\ Owed(timers) + NumProducts <= MaxPending
    /\ filters' = [filters EXCEPT ![filterType] = filterValue]
    /\ applyFilters(filters', searchTerm, timers)
    /\ lastEvent' = [op |-> "filterClick", arg |-> 0, note |-> "none"]
    /\ UNCHANGED <<searchTerm, priceDisplay, compareVars, reviewVars, noteVars>>

\* input event of the #price-range slider
handlePriceFilter(maxPrice) ==
    /\ Owed(timers) + NumProducts <= MaxPending
    /\ filters' = [filters EXCEPT !.maxPrice = <<parseInt(maxPrice)>>]
    /\ priceDisplay' = maxPrice
    /\ applyFilters(filters', searchTerm, timers)
    /\ lastEvent' = [op |-> "priceFilter", arg |-> 0, note |-> "none"]
    /\ UNCHANGED <<searchTerm, compareVars, reviewVars, noteVars>>

\* input event of #product-search: executedFunction of debounce
executedFunction(value) ==
    /\ Pending(timers) + NumProducts <= MaxPending
    /\ timers' = Append(WithoutDebounce(timers), <<Timer("debounce", 0, value)>>)
    /\ lastEvent' = [op |-> "searchInput", arg |-> 0, note |-> "none"]
    /\ UNCHANGED <<filters, searchTerm, priceDisplay, cardDisplay, cardOpacity,
                   resultsCount, compareVars, reviewVars, noteVars>>

\* the debounce timer fires: later() calls handleSearch
later ==
    \E b \in 1..Len(timers) :
        /\ canFire(b, 1)
        /\ timers[b][1].kind = "debounce"
        /\ searchTerm' = <<toLowerCase(timers[b][1].arg)>>
        /\ applyFilters(filters, searchTerm', Fired(b, 1))
        /\ lastEvent' = [op |-> "search", arg |-> 0, note |-> "none"]
        /\ UNCHANGED <<filters, priceDisplay, compareVars, reviewVars, noteVars>>

\* the 50 ms callback of a shown card
fadeInCallback ==
    \E b \in 1..Len(timers) : \E i \in 1..Len(timers[b]) :
        /\ canFire(b, i)
        /\ timers[b][i].kind = "fadeIn"
        /\ cardOpacity' = [cardOpacity EXCEPT ![timers[b][i].card] = "1"]
        /\ timers' = Fired(b, i)
        /\ lastEvent' = [op |-> "fadeIn", arg |-> 0, note |-> "none"]
        /\ UNCHANGED <<filters, searchTerm, priceDisplay, cardDisplay, resultsCount,
                       compareVars, reviewVars, noteVars>>

\* the 300 ms callback of a hidden card
hideCallback ==
    \E b \in 1..Len(timers) : \E i \in 1..Len(timers[b]) :
        /\ canFire(b, i)
        /\ timers[b][i].kind = "hide"
        /\ cardDisplay' = [cardDisplay EXCEPT ![timers[b][i].card] = "none"]
        /\ timers' = Fired(b, i)
        /\ lastEvent' = [op |-> "hide", arg |-> 0, note |-> "none"]
        /\ UNCHANGED <<filters, searchTerm, priceDisplay, cardOpacity, resultsCount,
                       compareVars, reviewVars, noteVars>>

InitFilter ==
    /\ filters = [category |-> "all", priceRange |-> "all", material |-> "all",
                  color |-> "all", maxPrice |-> <<>>]
    /\ searchTerm = <<>>
    /\ priceDisplay = <<>>
    /\ cardDisplay = [c \in Products |-> ""]
    /\ cardOpacity = [c \in Products |-> ""]
    /\ resultsCount = 0
    /\ timers = <<>>

NextFilter ==
    \/ \E filterType \in {"category", "material"} :
          \E filterValue \in FilterValues(filterType) :
             handleFilterClick(filterType, filterValue)
    \/ \E maxPrice \in SliderValues : handlePriceFilter(maxPrice)
    \/ \E value \in SearchInputs : executedFunction(value)
    \/ later
    \/ fadeInCallback
    \/ hideCallback

(* ---------------- ReviewSystem: data ---------------- *)

\* A review is the record built by submitReview.  The texts title, review,
\* name and email are only stored and shown, never inspected, and are
\* represented by their length; date is the ISO text of the clock value it
\* is represented by.

\* parseInt(undefined) and parseInt of a text with no leading digit
NaN == 0 - 1
\* what JSON.parse makes of the text null
Null == 0 - 2

\* the form fields read by submitReview: the scenario of the specification
\* ("Great bag", 33 characters of review, "Ana"), and a form with no title,
\* nine characters of review and a name of 51 characters
Drafts ==
    { [title |-> 9, review |-> 33, name |-> 3, email |-> 0, recommend |-> TRUE],
      [title |-> 0, review |-> 9, name |-> 51, email |-> 0, recommend |-> FALSE] }

\* the stars the user clicks
StarsClicked == {4, 5}

\* the collection a previous visit left in localStorage, newest first
SavedReviews ==
    << [id |-> 0, rating |-> 4, title |-> 9, review |-> 33, name |-> 3, email |-> 0,
        recommend |-> TRUE, date |-> 0, helpful |-> 0, images |-> <<>>] >>

(* ---------------- ReviewSystem: JSON.stringify / JSON.parse ---------------- *)

RECURSIVE toDigits(_)
\* the decimal text of a number
toDigits(n) ==
    IF n < 10 THEN <<DigitOf(n)>> ELSE toDigits(n \div 10) \o <<DigitOf(n % 10)>>

\* JSON text of a number: NaN is written as null
numberText(n) == IF n = NaN THEN <<"null">> ELSE toDigits(n)
numberValue(text) == IF text = <<"null">> THEN Null ELSE parseInt(text)

\* JSON text of a string (quoted), and the string read back
stringText(len) == <<"\"">> \o toDigits(len) \o <<"\"">>
stringValue(text) == parseInt(SubSeq(text, 2, Len(text) - 1))

booleanText(b) == IF b THEN <<"true">> ELSE <<"false">>
booleanValue(text) == text = <<"true">>

\* the tokens of one review object
reviewText(r) ==
    << <<"{">>,
       <<"id">>, numberText(r.id),
       <<"rating">>, numberText(r.rating),
       <<"title">>, stringText(r.title),
       <<"review">>, stringText(r.review),
       <<"name">>, stringText(r.name),
       <<"email">>, stringText(r.email),
       <<"recommend">>, booleanText(r.recommend),
       <<"date">>, stringText(r.date),
       <<"helpful">>, numberText(r.helpful),
       <<"images">>, <<"[", "]">>,
       <<"}">> >>

\* number of tokens of one review object
ReviewTokens == Len(reviewText(SavedReviews[1]))

RECURSIVE JSONstringify(_)
\* JSON.stringify(this.reviews)
JSONstringify(rs) ==
    IF rs = <<>> THEN <<>> ELSE reviewText(Head(rs)) \o JSONstringify(Tail(rs))

\* JSON.parse(saved)
JSONparse(text) ==
    [k \in 1..(Len(text) \div ReviewTokens) |->
        LET at(n) == text[(k - 1) * ReviewTokens + n]
        IN  [id |-> numberValue(at(3)), rating |-> numberValue(at(5)),
             title |-> stringValue(at(7)), review |-> stringValue(at(9)),
             name |-> stringValue(at(11)), email |-> stringValue(at(13)),
             recommend |-> booleanValue(at(15)), date |-> stringValue(at(17)),
             helpful |-> numberValue(at(19)), images |-> <<>>]]

\* the texts JSON.parse rejects with a SyntaxError: the objects of the
\* text are not whole
SyntaxError(text) ==
    \/ Len(text) % ReviewTokens # 0
    \/ \E k \in 1..(Len(text) \div ReviewTokens) :
          \/ text[(k - 1) * ReviewTokens + 1] # <<"{">>
          \/ text[k * ReviewTokens] # <<"}">>

\* a text in localStorage that a write cut short
TruncatedText == SubSeq(JSONstringify(SavedReviews), 1, 5)

\* loadReviews throws: the item is there and JSON.parse rejects it
loadThrows(item) == item # <<>> /\ SyntaxError(item[1])

\* loadReviews: saved ? JSON.parse(saved) : []
loadReviews(item) == IF item = <<>> THEN <<>> ELSE JSONparse(item[1])

\* a plausible slip: the write left out
saveReviews_skipped(rs) == stored

\* saveReviews: the item that localStorage.setItem leaves
saveReviews(rs) == <<JSONstringify(rs)>>

(* ---------------- ReviewSystem: summary and list ---------------- *)

RECURSIVE sumRatings(_)
\* reviews.reduce((sum, review) => sum + review.rating, 0)
sumRatings(rs) == IF rs = <<>> THEN 0 ELSE Head(rs).rating + sumRatings(Tail(rs))

\* reviews.filter(review => review.rating === i).length
countRating(rs, i) == Cardinality({k \in 1..Len(rs) : rs[k].rating = i})

\* the texts of .review-summary in the markup of createReviewSection
emptySummary ==
    [number |-> 0, count |-> 0, stars |-> 0,
     bars |-> [i \in 1..maxStars |-> 0], widths |-> [i \in 1..maxStars |-> 0]]

\* updateSummary: the summary texts after the call, given those shown
\* before it.  number is averageRating.toFixed(1) in tenths, stars is
\* Math.round(averageRating), widths the whole part of the percentage
updateSummary(rs, shown) ==
    IF Len(rs) = 0 THEN shown
    ELSE [number |-> (20 * sumRatings(rs) + Len(rs)) \div (2 * Len(rs)),
          count  |-> Len(rs),
          stars  |-> (2 * sumRatings(rs) + Len(rs)) \div (2 * Len(rs)),
          bars   |-> [i \in 1..maxStars |-> countRating(rs, i)],
          widths |-> [i \in 1..maxStars |-> (countRating(rs, i) * 100) \div Len(rs)]]

\* renderReviews: one .review-item per review, helpful buttons enabled, no
\* inline display
createReviewElements(rs) ==
    [k \in 1..Len(rs) |->
        [id |-> rs[k].id, rating |-> rs[k].rating, helpful |-> rs[k].helpful,
         disabled |-> FALSE, display |-> ""]]

\* the data-filter values of the buttons of .review-filters that are clicked
ReviewFilters == {"all", "5", "4", "images"}

\* filterReviews: whether an item of the given data-rating is shown
showItem(filter, rating) ==
    IF filter = "all" THEN TRUE
    ELSE IF filter = "images" THEN FALSE
    ELSE rating = parseInt(<<filter>>)

\* a plausible slip: push instead of unshift
unshift_push(rs, review) == Append(rs, review)

\* this.reviews.unshift(review)
unshift(rs, review) == <<review>> \o rs

\* a plausible slip: the rating test left out
missingRating_never(rating) == FALSE

\* !rating
missingRating(rating) == rating = NaN \/ rating = 0

RECURSIVE sumHelpful(_)
\* helpful clicks counted in the collection
sumHelpful(rs) == IF rs = <<>> THEN 0 ELSE Head(rs).helpful + sumHelpful(Tail(rs))

\* reviews.find(r => r.id === reviewId): the index of the first match, 0 if none
find(rs, reviewId) ==
    IF \E k \in 1..Len(rs) : rs[k].id = reviewId
    THEN CHOOSE k \in 1..Len(rs) :
            /\ rs[k].id = reviewId
            /\ \A j \in 1..(k - 1) : rs[j].id # reviewId
    ELSE 0

(* ---------------- ReviewSystem: handlers ---------------- *)

\* click on #btn-write-review: the modal and its StarRating are created
showReviewForm ==
    /\ reviewsSection
    /\ ~modalOpen
    /\ modalOpen' = TRUE
    /\ formRating' = <<>>
    /\ ratingInput' = [currentRating |-> 0, bound |-> TRUE]
    /\ lastEvent' = [op |-> "showReviewForm", arg |-> 0, note |-> "none"]
    /\ UNCHANGED <<reviews, stored, now, items, summary, reviewsSection, activeFilter,
                   compareVars, filterVars, noteVars>>

\* click on a star of the form: StarRating.setRating and the onRate callback.
\* render() replaces the star elements; the listeners stay on the old ones
setRating(rating) ==
    /\ modalOpen
    /\ ratingInput.bound
    /\ ratingInput' = [currentRating |-> rating, bound |-> FALSE]
    /\ formRating' = <<rating>>
    /\ lastEvent' = [op |-> "setRating", arg |-> rating, note |-> "none"]
    /\ UNCHANGED <<reviews, stored, now, modalOpen, items, summary, reviewsSection, activeFilter,
                   compareVars, filterVars, noteVars>>

\* click on .close-modal, .btn-cancel or the backdrop
closeModal ==
    /\ modalOpen
    /\ modalOpen' = FALSE
    /\ formRating' = <<>>
    /\ ratingInput' = [currentRating |-> 0, bound |-> FALSE]
    /\ lastEvent' = [op |-> "closeModal", arg |-> 0, note |-> "none"]
    /\ UNCHANGED <<reviews, stored, now, items, summary, reviewsSection, activeFilter,
                   compareVars, filterVars, noteVars>>

\* submit event of #review-form.  saveOk is whether localStorage.setItem
\* accepts the write; when it throws, the handler ends inside saveReviews
submitReview(draft, saveOk) ==
    LET rating == IF formRating = <<>> THEN NaN ELSE formRating[1]
        review == [id |-> now, rating |-> rating, title |-> draft.title,
                   review |-> draft.review, name |-> draft.name,
                   email |-> draft.email, recommend |-> draft.recommend,
                   date |-> now, helpful |-> 0, images |-> <<>>]
    IN  /\ modalOpen
        /\ Len(reviews) < MaxReviews
        /\ IF missingRating(rating)
           THEN /\ lastEvent' = [op |-> "submitRejected", arg |-> 0, note |-> "error"]
                /\ UNCHANGED <<reviews, stored, modalOpen, formRating, ratingInput,
                               items, summary>>
           ELSE /\ reviews' = unshift(reviews, review)
                /\ IF saveOk
                   THEN /\ stored' = saveReviews(reviews')
                        /\ items' = createReviewElements(reviews')
                        /\ summary' = updateSummary(reviews', summary)
                        /\ modalOpen' = FALSE
                        /\ formRating' = <<>>
                        /\ ratingInput' = [currentRating |-> 0, bound |-> FALSE]
                        /\ lastEvent' = [op |-> "submitted", arg |-> 0, note |-> "success"]
                   ELSE /\ lastEvent' = [op |-> "submitThrew", arg |-> 0, note |-> "none"]
                        /\ UNCHANGED <<stored, items, summary, modalOpen, formRating,
                                       ratingInput>>
        /\ UNCHANGED <<now, reviewsSection, activeFilter,
                   compareVars, filterVars, noteVars>>

\* markHelpful(reviewId).  An id that no review carries is passed over in
\* silence.  saveOk is whether localStorage.setItem accepts the write; the
\* handler ends inside saveReviews when it throws, and at button.textContent
\* when the document holds no element with that data-review-id
markHelpful(reviewId, saveOk) ==
    LET r == find(reviews, reviewId)
        \* document.querySelector(`[data-review-id="${reviewId}"]`)
        button == find(items, reviewId)
    IN  /\ IF r = 0
           THEN /\ lastEvent' = [op |-> "markHelpfulIgnored", arg |-> reviewId,
                                 note |-> "none"]
                /\ UNCHANGED <<reviews, stored, items>>
           ELSE /\ sumHelpful(reviews) < MaxHelpful
                /\ reviews' = [reviews EXCEPT ![r].helpful = @ + 1]
                /\ IF ~saveOk
                   THEN /\ lastEvent' = [op |-> "markHelpfulThrew", arg |-> reviewId,
                                         note |-> "none"]
                        /\ UNCHANGED <<stored, items>>
                   ELSE /\ stored' = saveReviews(reviews')
                        /\ IF button = 0
                           THEN /\ lastEvent' = [op |-> "markHelpfulThrew",
                                                 arg |-> reviewId, note |-> "none"]
                                /\ UNCHANGED items
                           ELSE /\ items' = [items EXCEPT
                                                ![button].helpful = reviews'[r].helpful,
                                                ![button].disabled = TRUE]
                                /\ lastEvent' = [op |-> "markHelpful", arg |-> reviewId,
                                                 note |-> "success"]
        /\ UNCHANGED <<now, modalOpen, formRating, ratingInput, summary, reviewsSection, activeFilter,
                       compareVars, filterVars, noteVars>>

\* click on the .btn-helpful of list item k; a disabled button takes no click
helpfulClick(k, saveOk) ==
    /\ k \in 1..Len(items)
    /\ ~items[k].disabled
    /\ markHelpful(items[k].id, saveOk)

\* click on a .filter-btn of .review-filters: filterReviews(filter)
filterReviews(filter) ==
    /\ reviewsSection
    /\ activeFilter' = filter
    /\ items' = [k \in 1..Len(items) |->
                    [items[k] EXCEPT !.display =
                        IF showItem(filter, items[k].rating) THEN "block" ELSE "none"]]
    /\ lastEvent' = [op |-> "filterReviews", arg |-> 0, note |-> "none"]
    /\ UNCHANGED <<reviews, stored, now, modalOpen, formRating, ratingInput, summary,
                   reviewsSection, compareVars, filterVars, noteVars>>

\* click on a star of the form that carries no listener: the stars that
\* render() put in place of the ones bindEvents had bound.  Nothing runs
starClickUnheard(rating) ==
    /\ modalOpen
    /\ ~ratingInput.bound
    /\ lastEvent' = [op |-> "starClick", arg |-> rating, note |-> "none"]
    /\ UNCHANGED <<reviewVars, compareVars, filterVars, noteVars>>

\* the ids another module of the page passes to the exported
\* ReviewSystem.markHelpful
CalledIds == {0, 1, 7}

\* markHelpful called by another module of the page on the ReviewSystem
\* that the page constructed
markHelpfulCalled(reviewId, saveOk) ==
    /\ reviewsSection
    /\ markHelpful(reviewId, saveOk)

\* time passes: Date.now() moves on to a later millisecond.  The values
\* the clock takes are numbered as the reviews read them, so it moves on
\* only from a value that a review carries
clockAdvance ==
    /\ \E k \in 1..Len(reviews) : reviews[k].id = now
    /\ now' = now + 1
    /\ UNCHANGED <<reviews, stored, modalOpen, formRating, ratingInput, items,
                   summary, reviewsSection, activeFilter, compareVars, filterVars, noteVars,
                   lastEvent>>

\* new ReviewSystem(): loadReviews, createReviewSection, renderReviews
\* When loadReviews throws, the constructor ends there: this.reviews is
\* never assigned and init() never runs
InitReview ==
    /\ stored \in {<<>>, <<JSONstringify(SavedReviews)>>, <<TruncatedText>>}
    /\ now = 1
    /\ modalOpen = FALSE
    /\ formRating = <<>>
    /\ ratingInput = [currentRating |-> 0, bound |-> FALSE]
    /\ activeFilter = "all"
    /\ IF loadThrows(stored)
       THEN /\ reviews = <<>>
            /\ reviewsSection = FALSE
            /\ items = <<>>
            /\ summary = emptySummary
       ELSE /\ reviews = loadReviews(stored)
            /\ reviewsSection = TRUE
            /\ items = createReviewElements(reviews)
            /\ summary = updateSummary(reviews, emptySummary)

NextReview ==
    \/ showReviewForm
    \/ \E rating \in StarsClicked : setRating(rating)
    \/ closeModal
    \/ \E draft \in Drafts : \E saveOk \in BOOLEAN : submitReview(draft, saveOk)
    \/ \E k \in 1..Len(items) : \E saveOk \in BOOLEAN : helpfulClick(k, saveOk)
    \/ clockAdvance

\* the review section with its filter buttons and every click on the stars
NextReviewPage ==
    \/ NextReview
    \/ \E filter \in ReviewFilters : filterReviews(filter)
    \/ \E rating \in StarsClicked : starClickUnheard(rating)

\* the review section used through the page and through its exported class
NextReviewCalled ==
    \/ NextReview
    \/ \E reviewId \in CalledIds : \E saveOk \in BOOLEAN :
          markHelpfulCalled(reviewId, saveOk)

(* ---------------- NotificationSystem ---------------- *)

\* the type the callers pass to showNotification; it names the class of
\* the element and nothing else depends on it
NoteTypes == {"success"}

\* showNotification(message, type): window.notifications is set once the
\* page has loaded; NotificationSystem.show appends the element and sets
\* the timers of the show animation and of the auto removal (duration 5000)
showNotification(type) ==
    LET n == Len(notes) + 1
    IN  /\ n <= MaxNotes
        /\ notes' = Append(notes, [type |-> type, attached |-> TRUE, shown |-> FALSE,
                                   hidden |-> FALSE, removed |-> 0])
        /\ timers' = Append(timers, <<Timer("showClass", n, <<>>),
                                      Timer("autoRemove", n, <<>>)>>)
        /\ lastEvent' = [op |-> "showNotification", arg |-> n, note |-> type]
        /\ UNCHANGED <<filters, searchTerm, priceDisplay, cardDisplay, cardOpacity,
                       resultsCount, compareVars, reviewVars>>

\* the 100 ms callback of show: classList.add('show')
showCallback ==
    \E b \in 1..Len(timers) : \E i \in 1..Len(timers[b]) :
        /\ canFire(b, i)
        /\ timers[b][i].kind = "showClass"
        /\ notes' = [notes EXCEPT ![timers[b][i].card].shown = TRUE]
        /\ timers' = Fired(b, i)
        /\ lastEvent' = [op |-> "showCallback", arg |-> timers[b][i].card, note |-> "none"]
        /\ UNCHANGED <<filters, searchTerm, priceDisplay, cardDisplay, cardOpacity,
                       resultsCount, compareVars, reviewVars>>

\* remove(notification): classList.add('hide') and the 300 ms timer,
\* set after the callbacks in pending
remove(n, pending) ==
    /\ notes' = [notes EXCEPT ![n].hidden = TRUE]
    /\ timers' = Append(pending, <<Timer("detach", n, <<>>)>>)

\* the callback of show that fires after duration: this.remove(notification)
autoRemoveCallback ==
    \E b \in 1..Len(timers) : \E i \in 1..Len(timers[b]) :
        /\ canFire(b, i)
        /\ timers[b][i].kind = "autoRemove"
        /\ remove(timers[b][i].card, Fired(b, i))
        /\ lastEvent' = [op |-> "autoRemove", arg |-> timers[b][i].card, note |-> "none"]
        /\ UNCHANGED <<filters, searchTerm, priceDisplay, cardDisplay, cardOpacity,
                       resultsCount, compareVars, reviewVars>>

\* click on the .notification-close of notification n, which is in the
\* document: this.remove(notification)
closeClick(n) ==
    /\ n \in 1..Len(notes)
    /\ notes[n].attached
    /\ Pending(timers) < MaxNoteTimers
    /\ remove(n, timers)
    /\ lastEvent' = [op |-> "closeClick", arg |-> n, note |-> "none"]
    /\ UNCHANGED <<filters, searchTerm, priceDisplay, cardDisplay, cardOpacity,
                   resultsCount, compareVars, reviewVars>>

\* a plausible slip: the element detached without looking at its parent
hasParent_always(note) == TRUE

\* if (notification.parentNode)
hasParent(note) == note.attached

\* the 300 ms callback of remove: removeChild when the element has a parent
detachCallback ==
    \E b \in 1..Len(timers) : \E i \in 1..Len(timers[b]) :
        LET n == timers[b][i].card
        IN  /\ canFire(b, i)
            /\ timers[b][i].kind = "detach"
            /\ notes' = IF hasParent(notes[n])
                         THEN [notes EXCEPT ![n].attached = FALSE,
                                            ![n].removed = @ + 1]
                         ELSE notes
            /\ timers' = Fired(b, i)
            /\ lastEvent' = [op |-> IF hasParent(notes[n]) THEN "detachCallback"
                                    ELSE "detachSkipped",
                             arg |-> n, note |-> "none"]
            /\ UNCHANGED <<filters, searchTerm, priceDisplay, cardDisplay, cardOpacity,
                           resultsCount, compareVars, reviewVars>>

\* new NotificationSystem(): the empty .notification-container
InitNotify == notes = <<>>

NextNotify ==
    \/ \E type \in NoteTypes : showNotification(type)
    \/ showCallback
    \/ autoRemoveCallback
    \/ \E n \in 1..Len(notes) : closeClick(n)
    \/ detachCallback

(* ---------------- the page ---------------- *)

Init ==
    /\ InitCompare
    /\ InitFilter
    /\ InitReview
    /\ InitNotify
    /\ lastEvent = [op |-> IF reviewsSection THEN "load" ELSE "loadThrew",
                    arg |-> 0, note |-> "none"]

\* a page visited with no reviews in localStorage
InitFresh == Init /\ stored = <<>>

SpecCompare == InitFresh /\ [][NextCompare]_vars

SpecFilter == InitFresh /\ [][NextFilter]_vars

\* typing in the search box, and the callbacks that follow from it
NextSearch ==
    \/ \E value \in SearchInputs : executedFunction(value)
    \/ later
    \/ fadeInCallback
    \/ hideCallback

\* the event loop runs every callback that is due
SpecSearch ==
    /\ InitFresh
    /\ [][NextSearch]_vars
    /\ WF_vars(later)
    /\ WF_vars(fadeInCallback)
    /\ WF_vars(hideCallback)

SpecReview == Init /\ [][NextReview]_vars

\* the notifications; the event loop runs every callback that is due
SpecNotify ==
    /\ InitFresh
    /\ [][NextNotify]_vars
    /\ WF_vars(showCallback)
    /\ WF_vars(autoRemoveCallback)
    /\ WF_vars(detachCallback)

SpecReviewPage == Init /\ [][NextReviewPage]_vars

SpecReviewCalled == Init /\ [][NextReviewCalled]_vars

(* ======================= claims: CompareSet ======================= *)

NoDuplicates(list) ==
    \A i, j \in 1..Len(list) : list[i] = list[j] => i = j

\* list with the element at index i taken out
WithoutIndex(list, i) == SubSeq(list, 1, i - 1) \o SubSeq(list, i + 1, Len(list))

\* C1: the compare list never holds more than 3 ids nor an id twice, and
\* an add of an id not in a list of 3 leaves the list as it was.
C1_CompareBound ==
    /\ [](Len(compareList) <= 3 /\ NoDuplicates(compareList))
    /\ [][\A p \in Products :
            (addToCompare(p) /\ Len(compareList) = 3 /\ ~Includes(compareList, p))
                => (compareList' = compareList /\ Len(compareList') = 3)]_vars

\* a fourth add was refused on a full list
C1_Witness ==
    /\ lastEvent.op = "compareFullThrew"
    /\ Len(compareList) = 3
    /\ ~Includes(compareList, lastEvent.arg)

\* C2: an add of an id already in the list removes exactly that id and
\* keeps the others in order; add(a) then add(a) restores the list whenever
\* the first add succeeded.
C2_CompareToggle ==
    /\ [][\A p \in Products :
            (addToCompare(p) /\ Includes(compareList, p))
                => \E i \in 1..Len(compareList) :
                      /\ compareList[i] = p
                      /\ compareList' = WithoutIndex(compareList, i)
                      /\ Len(compareList') = Len(compareList) - 1]_vars
    /\ [](\A p \in Products :
            (~Includes(compareList, p) /\ Len(compareList) < 3)
                => listAfterAdd(listAfterAdd(compareList, p), p) = compareList)

\* the toggle removed the middle id of a full list
C2_Witness ==
    /\ lastEvent = [op |-> "compareRemove", arg |-> 2, note |-> "none"]
    /\ compareList = <<1, 3>>

(* ======================= claims: ProductFilter ======================= *)

\* the visibility rule as the specification words it: unset is the only
\* maxPrice that lets every price through
isVisible(c) ==
    /\ (filters.category = "all" \/ filters.category = cardCategory(c))
    /\ (filters.material = "all" \/ filters.material = cardMaterial(c))
    /\ (filters.maxPrice = <<>> \/ parseInt(cardPrice(c)) <= filters.maxPrice[1])
    /\ \/ searchTerm = <<>>
       \/ searchTerm[1] = <<>>
       \/ strIncludes(toLowerCase(cardTitle(c)), toLowerCase(searchTerm[1]))
       \/ strIncludes(toLowerCase(cardDescription(c)), toLowerCase(searchTerm[1]))

\* C3: for every card and every filter state the `show` decision of
\* applyFilters is the conjunction of the four predicates, so every set
\* maxPrice, 0 included, hides the cards priced above it.
C3_VisibilityConjunction ==
    \A c \in Products : show(c, filters, searchTerm) <=> isVisible(c)

\* C4: right after a filter application the number in #results-count is
\* the number of cards the visibility decision shows.
C4_ResultsCounter ==
    lastEvent.op \in {"filterClick", "priceFilter", "search"}
        => resultsCount = Cardinality({c \in Products : show(c, filters, searchTerm)})

(* ======================= claims: ReviewSystem ======================= *)

C6_PersistenceFollows ==
    /\ lastEvent.op \in {"submitted", "markHelpful"} => loadReviews(stored) = reviews
    /\ loadReviews(saveReviews(reviews)) = reviews

\* a helpful count was saved with a collection of two reviews or more
C6_Witness ==
    /\ lastEvent.op = "markHelpful"
    /\ Len(reviews) >= 2
    /\ \E k \in 1..Len(reviews) : reviews[k].helpful = 1
    /\ stored # <<>>

\* C7: no two reviews of the collection have the same id.
C7_UniqueIds ==
    \A i, j \in 1..Len(reviews) : reviews[i].id = reviews[j].id => i = j

\* C8: a submit of a form with no rating selected (or one outside 1..5)
\* shows an error notification and leaves the collection and the stored
\* item as they were.
C8_MissingRatingRejected ==
    [][\A draft \in Drafts : \A saveOk \in BOOLEAN :
          (/\ submitReview(draft, saveOk)
           /\ IF formRating = <<>> THEN TRUE ELSE formRating[1] \notin 1..5)
              => /\ reviews' = reviews
                 /\ stored' = stored
                 /\ lastEvent'.note = "error"]_vars

\* a form was submitted with no star clicked
C8_Witness ==
    /\ lastEvent.op = "submitRejected"
    /\ lastEvent.note = "error"
    /\ formRating = <<>>
    /\ modalOpen

\* the length limits of the specification on title, body and author name
validTexts(draft) ==
    /\ draft.title >= 1 /\ draft.title <= 100
    /\ draft.review >= 10 /\ draft.review <= 1000
    /\ draft.name >= 1 /\ draft.name <= 50

\* C9: a submit whose title, body or author name breaks its length limit
\* fails with a validation error and adds no review.
C9_TextLengthValidation ==
    [][\A draft \in Drafts : \A saveOk \in BOOLEAN :
          (submitReview(draft, saveOk) /\ ~validTexts(draft))
              => /\ reviews' = reviews
                 /\ lastEvent'.note = "error"]_vars

\* C10: the summary shows the length of the collection as the count and,
\* per star, the number of reviews of that rating; the per-star counts add
\* up to the count; for the empty collection it shows 0, 0.0 and no bars.
C10_SummaryConsistency ==
    /\ summary.count = Len(reviews)
    /\ \A star \in 1..5 :
          summary.bars[star] = Cardinality({k \in 1..Len(reviews) : reviews[k].rating = star})
    /\ summary.bars[1] + summary.bars[2] + summary.bars[3] + summary.bars[4]
          + summary.bars[5] = summary.count
    /\ reviews = <<>> =>
          /\ summary.count = 0
          /\ summary.number = 0
          /\ \A star \in 1..5 : summary.bars[star] = 0

(* ---------------- C11 ---------------- *)

\* C11: when the stored text is one JSON.parse rejects, loading gives the
\* empty collection and the review section is set up as on a first visit
C11_MalformedStorage ==
    loadThrows(stored) =>
        /\ reviews = <<>>
        /\ reviewsSection
        /\ items = <<>>
        /\ lastEvent.op # "loadThrew"

(* ---------------- C12 ---------------- *)

\* C12: a submission whose write to localStorage fails still ends normally:
\* a warning is notified, the review is in the collection, the list and the
\* summary show the collection and the form is closed
C12_SaveFailure ==
    lastEvent.op \in {"submitted", "submitThrew"} =>
        /\ lastEvent.op = "submitThrew" => lastEvent.note = "warning"
        /\ reviews # <<>>
        /\ items = createReviewElements(reviews)
        /\ summary = updateSummary(reviews, emptySummary)
        /\ ~modalOpen

(* ---------------- C13 ---------------- *)

\* C13: markHelpful with an id no review carries fails with a NotFoundError,
\* thrown or notified, and leaves the collection and the stored text as they
\* were; with an id a review carries it adds one to the helpful count of
\* that review and changes no other review
C13_MarkHelpful ==
    [][\A reviewId \in CalledIds \cup {items[k].id : k \in 1..Len(items)} :
         \A saveOk \in BOOLEAN :
           markHelpful(reviewId, saveOk) =>
             LET r == find(reviews, reviewId)
             IN  IF r = 0
                 THEN /\ \/ lastEvent'.op = "markHelpfulThrew"
                         \/ lastEvent'.note # "none"
                      /\ reviews' = reviews
                      /\ stored' = stored
                 ELSE reviews' = [reviews EXCEPT ![r].helpful = @ + 1]]_vars

(* ---------------- C14 ---------------- *)

\* C14: every helpful count is 0 when the page loads, and whatever the
\* user clicks and submits, no review has its count raised more than once
C14_HelpfulOnce ==
    \A k \in 1..Len(reviews) : reviews[k].helpful <= 1

(* ---------------- C17 ---------------- *)

\* C17: a click that would add a fourth product ends normally, with the
\* warning 'Maximum 3 products can be compared' passed to the notifications
C17_MaxReachedNotice ==
    lastEvent.op \in {"compareFull", "compareFullThrew"} =>
        /\ lastEvent.op = "compareFull"
        /\ lastEvent.note = "warning"

(* ---------------- C18 ---------------- *)

\* C18: once every fade timer of the filter applications made so far has
\* fired, a card is displayed exactly when the latest application decided
\* to show it
C18_FadeConvergence ==
    (timers = <<>> /\ lastEvent.op \in {"fadeIn", "hide"}) =>
        \A c \in Products :
            (cardDisplay[c] = "block") <=> show(c, filters, searchTerm)

(* ---------------- C16 ---------------- *)

\* the values held by the pending debounce timers, oldest first
DebounceArgs(ts) ==
    LET ds == SelectSeq(ts, LAMBDA batch : batch[1].kind = "debounce")
    IN  [b \in 1..Len(ds) |-> ds[b][1].arg]

\* C16: at most one debounce timer is pending; after an input event the
\* pending timer carries the value of that event and no earlier one; when
\* the timer fires the search runs with that value and no timer is left;
\* and a value left pending is applied unless a later input replaces it
C16_DebounceLastWins ==
    /\ [](Len(DebounceArgs(timers)) <= 1)
    /\ [][\A value \in SearchInputs :
            executedFunction(value) => DebounceArgs(timers') = <<value>>]_vars
    /\ [][later =>
            /\ DebounceArgs(timers) # <<>>
            /\ searchTerm' = <<toLowerCase(DebounceArgs(timers)[1])>>
            /\ DebounceArgs(timers') = <<>>]_vars
    /\ \A value \in SearchInputs :
          (DebounceArgs(timers) = <<value>>) ~>
              \/ lastEvent.op = "search" /\ searchTerm = <<toLowerCase(value)>>
              \/ DebounceArgs(timers) # <<value>>

\* a burst of two inputs has ended: the timer has fired once, the term is
\* the value typed last and no timer is pending
C16_Witness ==
    /\ lastEvent.op = "search"
    /\ searchTerm = <<<<"a", "b">>>>
    /\ DebounceArgs(timers) = <<>>

(* ---------------- C19 ---------------- *)

\* C19: whatever filter buttons were clicked and reviews submitted, the
\* items on display are those the active filter admits: every item under
\* "all", the items of k stars under "k", none under "images"
C19_ListMatchesFilter ==
    \A k \in 1..Len(items) :
        (items[k].display # "none") <=> showItem(activeFilter, items[k].rating)

(* ---------------- C20 ---------------- *)

\* C20: after every click on a star of the form, the rating of the widget
\* and the rating handed to the form are the star clicked last, and a
\* submission that follows stores that rating
C20_RatingReselect ==
    /\ [](lastEvent.op \in {"setRating", "starClick"} =>
            /\ ratingInput.currentRating = lastEvent.arg
            /\ formRating = <<lastEvent.arg>>)
    /\ [][\A draft \in Drafts : \A saveOk \in BOOLEAN :
            (lastEvent.op \in {"setRating", "starClick"} /\ submitReview(draft, saveOk)) =>
                (reviews' # reviews /\ reviews'[1].rating = lastEvent.arg)]_vars

(* ---------------- C15 ---------------- *)

\* C15: every notification shown is in the end out of the container; it
\* is taken out once and no more, whether the close click, the expiry or
\* both in either order asked for it; and a removal that finds it already
\* out changes nothing
C15_NotificationRetraction ==
    /\ \A n \in 1..MaxNotes :
          (n <= Len(notes)) ~> (n <= Len(notes) /\ ~notes[n].attached)
    /\ [](\A n \in 1..Len(notes) :
            /\ notes[n].removed <= 1
            /\ notes[n].removed = 1 <=> ~notes[n].attached)
    /\ [][\A n \in 1..Len(notes) :
            (detachCallback /\ lastEvent'.arg = n /\ ~notes[n].attached) =>
                notes' = notes]_vars

\* a notification closed by click and expired as well: it was taken out
\* once, and the callback of the second removal found it already out
C15_Witness ==
    /\ lastEvent.op = "detachSkipped"
    /\ timers = <<>>
    /\ Len(notes) = 1
    /\ notes[1].removed = 1
    /\ ~notes[1].attached
====
